---- MODULE Spec2Model ----
(***************************************************************************)
(* Model of the asset loading pipeline: AssetLoad (one multi load, the     *)
(* "batch"), the task registry it matches descriptors against, and the     *)
(* task variants LoadTask, ColorAlphaTask and TextureTask.                 *)
(*                                                                         *)
(* JavaScript values are encoded as follows.                               *)
(*   - an absent id (undefined/null) is NoId = 0, real ids are 1..MaxId;   *)
(*   - a descriptor is a record: raw is how the caller wrote it ("string", *)
(*     "function" or "record"), f names the source fields it carries       *)
(*     ("src", "ca" = color+alpha, "img" = image, "async"), type is the    *)
(*     type tag, cache the cache flag ("undef", "yes", "no"), sync says    *)
(*     whether the task built from it calls back inside start();           *)
(*   - a submission is a record with shape "bare", "array" or "object";    *)
(*   - the result container is a record [k, e]: k is "null", "value",      *)
(*     "list" or "map" and e the entries (values, or <<key, value>> pairs  *)
(*     in insertion order);                                                *)
(*   - the value produced by task number n is n itself;                    *)
(*   - a progress value is the pair <<numLoaded, total>>, the fraction     *)
(*     numLoaded / total (Infinity or NaN when total is 0);                *)
(*   - the log holds what the load emitted and did, oldest first:          *)
(*       <<"progress", numLoaded, total, pending>>  the progress event and *)
(*           the length of the task list when it was triggered,            *)
(*       <<"hook", n, result>>  the completion hook of task n is called,   *)
(*       <<"taskDone", n, result, task>>  the taskDone event of task n,    *)
(*       <<"complete", results, pending>>  the complete event,             *)
(*       <<"cache", id, result>>  a call of cache.write,                   *)
(*       <<"dispatch", n, 0>>, <<"done", n, result>>  task n was started,  *)
(*           was taken off the task list by taskDone,                      *)
(*       <<"violation", 0, 0>>, <<"error", text, 0>>  Debug.error calls.   *)
(*                                                                         *)
(* The bare identifier MAP_MODE used by the constructor and reset() is the *)
(* same binding in both places; a batch that exists was constructed, so    *)
(* the binding resolves, and it is modelled with the documented value 1.   *)
(***************************************************************************)
EXTENDS Integers, Sequences, FiniteSets, TLC

\* ---------------------------------------------------------------- bounds
MaxId == 2
MaxLen == 2
MaxTasks == 3
MaxStarts == 1
MaxSetups == 1
MaxUrl == 2
MaxPool == 3
MaxDefines == 2
MaxFallback == 2
MaxDelay == 2
MaxElapsed == 2
MaxFired == 2
MaxList == 2
MaxDuration == 2

\* ------------------------------------------------------ program constants
SINGLE_MODE == 0
MAP_MODE == 1
LIST_MODE == 2

NoId == 0

WAITING == "WAITING"
RUNNING == "RUNNING"
FINISHED == "FINISHED"

Variants == {"LoadTask", "ColorAlphaTask", "TextureTask"}

\* ------------------------------------------------------------ descriptors
StringDesc == [raw |-> "string", f |-> "src", type |-> "undef", id |-> NoId,
               cache |-> "undef", sync |-> FALSE]

FunctionDesc == [raw |-> "function", f |-> "async", type |-> "undef", id |-> NoId,
                 cache |-> "undef", sync |-> FALSE]

IdDesc == [raw |-> "record", f |-> "src", type |-> "undef", id |-> 1,
           cache |-> "undef", sync |-> FALSE]

CachedDesc == [raw |-> "record", f |-> "src", type |-> "undef", id |-> MaxId,
               cache |-> "yes", sync |-> FALSE]

SyncDesc == [raw |-> "record", f |-> "src", type |-> "undef", id |-> NoId,
             cache |-> "undef", sync |-> TRUE]

ColorAlphaDesc == [raw |-> "record", f |-> "ca", type |-> "undef", id |-> 1,
                   cache |-> "undef", sync |-> FALSE]

ImageDesc == [raw |-> "record", f |-> "img", type |-> "pixi", id |-> 1,
              cache |-> "undef", sync |-> FALSE]

\* the descriptors submitted to a load, in an array and in a keyed object
Descs == {StringDesc, FunctionDesc, CachedDesc, SyncDesc}

KeyedDescs == {StringDesc, FunctionDesc, CachedDesc}

\* the descriptors the registry is matched against
RegistryDescs == {StringDesc, FunctionDesc, IdDesc, ColorAlphaDesc, ImageDesc}

\* what a completion hook or a taskDone listener appends to the assets list
MoreAssets == { <<>>, <<IdDesc>>, <<StringDesc>>, <<FunctionDesc>> }

\* ------------------------------------------------------- task variants
\* LoadTask.test
LoadTaskTest(asset) == asset.f = "src"

\* ColorAlphaTask.test
ColorAlphaTaskTest(asset) == asset.f = "ca"

\* TextureTask.test
TextureTaskTest(asset) == asset.type = "pixi" /\ asset.f \in {"img", "ca"}

Test(cls, asset) ==
    CASE cls = "LoadTask" -> LoadTaskTest(asset)
      [] cls = "ColorAlphaTask" -> ColorAlphaTaskTest(asset)
      [] cls = "TextureTask" -> TextureTaskTest(asset)

\* ------------------------------------------------------------ the registry
\* AssetManager.register: external append to manager.taskDefs
Registered(defs, cls) == Append(defs, cls)

RECURSIVE MatchFrom(_, _, _)
MatchFrom(defs, asset, i) ==
    IF i > Len(defs) THEN "null"
    ELSE IF Test(defs[i], asset) THEN defs[i]
    ELSE MatchFrom(defs, asset, i + 1)

\* AssetLoad.getTaskByAsset: for (i = 0; i < len; i++) first variant whose test accepts
getTaskByAsset(defs, asset) == MatchFrom(defs, asset, 1)

\* ------------------------------------------------------------ AssetLoad
\* AssetLoad._applyDefaults
applyDefaults(asset) ==
    IF asset.raw = "string" THEN [asset EXCEPT !.raw = "record", !.f = "src"]
    ELSE IF asset.raw = "function" THEN [asset EXCEPT !.raw = "record", !.f = "async"]
    ELSE asset

\* the default type tag: if (asset.type === undefined && this.type) asset.type = this.type
WithType(s, asset) ==
    IF asset.type = "undef" /\ s.type # "null" THEN [asset EXCEPT !.type = s.type] ELSE asset

\* new TaskClass(asset): Task starts WAITING, takes the descriptor's id and cache flag
NewTask(n, cls, asset) ==
    [n |-> n, id |-> asset.id, status |-> WAITING, cache |-> (asset.cache = "yes"),
     cls |-> cls, sync |-> asset.sync]

NoTask == [n |-> 0, id |-> NoId, status |-> FINISHED, cache |-> FALSE,
           cls |-> "null", sync |-> FALSE]

\* AssetLoad.addTask; s.ret is the task returned, NoTask for undefined
addTask(s, asset0) ==
    LET asset == WithType(s, asset0)
        TaskClass == getTaskByAsset(s.taskDefs, asset)
        cached == IF asset.cache = "undef" /\ s.cacheAll
                  THEN [asset EXCEPT !.cache = "yes"] ELSE asset
        task == NewTask(s.nextN, TaskClass, cached)
    IN IF TaskClass # "null"
       THEN [s EXCEPT !.tasks = Append(@, task), !.total = @ + 1,
                      !.nextN = @ + 1, !.ret = task]
       ELSE [s EXCEPT !.ret = NoTask,
                      !.log = IF s.build = "debug"
                              THEN Append(@, <<"error", "no task definition", 0>>)
                              ELSE @]

RECURSIVE addArray(_, _, _)

\* the body of the array loop after addTask returned: if (!task.id) mode = LIST_MODE
arrayMember(s, items, i) ==
    IF s.ret = NoTask
    THEN [s EXCEPT !.err = "TypeError"]                   \* task.id of undefined
    ELSE addArray(IF s.ret.id = NoId THEN [s EXCEPT !.rmode = LIST_MODE] ELSE s,
                  items, i + 1)

\* the array branch of addTasks; s.rmode is the local variable mode
addArray(s, items, i) ==
    IF i > Len(items) THEN s
    ELSE arrayMember(addTask(s, applyDefaults(items[i])), items, i)

\* a for-in loop that leaves a task without id as it is
KeepLastId(tasks, id) == tasks

\* task.id = id on the task just added
SetLastId(tasks, id) == [tasks EXCEPT ![Len(tasks)].id = id]

RECURSIVE addObject(_, _, _, _)

\* the body of the for-in loop after addTask returned: if (!task.id) task.id = id
objectMember(s, obj, keys, i) ==
    IF s.ret = NoTask
    THEN [s EXCEPT !.err = "TypeError"]                   \* task.id of undefined
    ELSE addObject(IF s.ret.id = NoId
                   THEN [s EXCEPT !.tasks = SetLastId(@, keys[i])] ELSE s,
                   obj, keys, i + 1)

\* the keyed-object branch of addTasks; keys in iteration order
addObject(s, obj, keys, i) ==
    IF i > Len(keys) THEN s
    ELSE objectMember(addTask(s, applyDefaults(obj[keys[i]])), obj, keys, i)

\* ascending sequence of a set of integers
RECURSIVE Ascending(_)
Ascending(S) ==
    IF S = {} THEN <<>>
    ELSE LET m == CHOOSE x \in S : \A y \in S : x <= y
         IN <<m>> \o Ascending(S \ {m})

\* AssetLoad.addTasks; the mode it returns is s.rmode
addTasks(s, assets) ==
    LET s0 == [s EXCEPT !.rmode = MAP_MODE] IN
    IF assets.shape = "bare"
    THEN LET asset == WithType(s0, applyDefaults(assets.one))
             isSingle == getTaskByAsset(s0.taskDefs, asset)
         IN IF isSingle # "null"
            THEN [addTask(s0, asset) EXCEPT !.rmode = SINGLE_MODE]
            \* a plain object no variant accepts: for (id in assets) runs over its
            \* fields; {src: string} and {async: function} have the one field whose
            \* value is the caller's bare value again
            ELSE addObject(s0, [k \in {1} |-> assets.one], <<1>>, 1)
    ELSE IF assets.shape = "array"
    THEN addArray(s0, assets.items, 1)
    ELSE addObject(s0, assets.obj, Ascending(DOMAIN assets.obj), 1)

\* a container chosen as if every array gave a list and everything else a map
listUnlessSingle(mode) ==
    CASE mode = SINGLE_MODE -> [k |-> "null", e |-> <<>>]
      [] mode = LIST_MODE -> [k |-> "list", e |-> <<>>]
      [] mode = MAP_MODE -> [k |-> "list", e |-> <<>>]

\* AssetLoad._getAssetsContainer
getAssetsContainer(mode) ==
    CASE mode = SINGLE_MODE -> [k |-> "null", e |-> <<>>]
      [] mode = LIST_MODE -> [k |-> "list", e |-> <<>>]
      [] mode = MAP_MODE -> [k |-> "map", e |-> <<>>]

\* this.tasks.indexOf(task) + 1, 0 when the task is not in the list
RECURSIVE IndexFrom(_, _, _)
IndexFrom(tasks, n, i) ==
    IF i > Len(tasks) THEN 0
    ELSE IF tasks[i].n = n THEN i
    ELSE IndexFrom(tasks, n, i + 1)

indexOf(tasks, n) == IndexFrom(tasks, n, 1)

\* a splice that takes the next task off the list as well
spliceTwo(tasks, index) ==
    [i \in 1..(Len(tasks) - (IF index < Len(tasks) THEN 2 ELSE 1)) |->
        IF i < index THEN tasks[i] ELSE tasks[i + 2]]

\* this.tasks.splice(index, 1)
splice(tasks, index) ==
    [i \in 1..(Len(tasks) - 1) |-> IF i < index THEN tasks[i] ELSE tasks[i + 1]]

\* this.results[id] = result on a plain object: replace in place or add last
RECURSIVE AssignFrom(_, _, _, _)
AssignFrom(e, id, result, i) ==
    IF i > Len(e) THEN Append(e, <<id, result>>)
    ELSE IF e[i][1] = id THEN [e EXCEPT ![i] = <<id, result>>]
    ELSE AssignFrom(e, id, result, i + 1)

\* a switch that keeps a list container in the order the tasks were admitted
foldByAdmission(s, task, result) ==
    CASE s.mode = SINGLE_MODE ->
            [s EXCEPT !.results = [k |-> "value", e |-> <<result>>]]
      [] s.mode = LIST_MODE ->
            IF s.results.k = "list"
            THEN [s EXCEPT !.results.e = SelectSeq(@, LAMBDA v : v < result)
                                         \o <<result>>
                                         \o SelectSeq(@, LAMBDA v : v > result)]
            ELSE [s EXCEPT !.err = "TypeError"]
      [] s.mode = MAP_MODE ->
            IF s.results.k = "map"
            THEN [s EXCEPT !.results.e = AssignFrom(@, task.id, result, 1)]
            ELSE [s EXCEPT !.err = "TypeError"]

\* the switch (this.mode) of taskDone
foldResult(s, task, result) ==
    CASE s.mode = SINGLE_MODE ->
            [s EXCEPT !.results = [k |-> "value", e |-> <<result>>]]
      [] s.mode = LIST_MODE ->
            IF s.results.k = "list"
            THEN [s EXCEPT !.results.e = Append(@, result)]
            ELSE [s EXCEPT !.err = "TypeError"]            \* push of null
      [] s.mode = MAP_MODE ->
            IF s.results.k = "map"
            THEN [s EXCEPT !.results.e = AssignFrom(@, task.id, result, 1)]
            ELSE [s EXCEPT !.err = "TypeError"]            \* property of null

\* a taskDone that writes every result to the cache
cacheWriteAlways(s, task, result) ==
    [s EXCEPT !.log = Append(@, <<"cache", task.id, result>>)]

\* this.manager.cache.write(task.id, result)
cacheWrite(s, task, result) ==
    IF task.cache THEN [s EXCEPT !.log = Append(@, <<"cache", task.id, result>>)] ELSE s

\* the check that a MAP load stays MAP, at the end of taskDone
ShapeViolated(s) == s.mode = MAP_MODE /\ s.rmode # s.mode

\* a taskDone that falls back to list results instead of reporting the violation
shapeDemotion(s) ==
    [s EXCEPT !.violated = TRUE, !.mode = s.rmode,
              !.log = Append(@, <<"violation", 0, 0>>),
              !.err = IF s.build = "release" THEN "Assets require IDs" ELSE "none"]

\* what taskDone does on a shape violation: report it, and return (debug) or throw
shapeViolation(s) ==
    [s EXCEPT !.violated = TRUE,
              !.log = Append(@, <<"violation", 0, 0>>),
              !.err = IF s.build = "release" THEN "Assets require IDs" ELSE "none"]

\* a nextTask that returns after its first dispatch whatever the policy
stopsAlways(s) == TRUE

\* nextTask returns after a dispatch: if (!this.startAll) return
stopsAfterOne(s) == ~s.startAll

\* AssetLoad.reset
reset(s) ==
    [s EXCEPT !.destroyed = @ \cup { s.tasks[i].n : i \in 1..Len(s.tasks) },
              !.total = 0, !.numLoaded = 0, !.mode = MAP_MODE, !.tasks = <<>>,
              !.results = [k |-> "null", e |-> <<>>], !.type = "null",
              !.startAll = TRUE, !.cacheAll = FALSE, !.running = FALSE]

\* a taskDone that reports the load finished as soon as no task waits
noneWaiting(s) == \A i \in 1..Len(s.tasks) : s.tasks[i].status # WAITING

\* the end of taskDone: if (this.tasks.length) nextTask() else trigger complete
finished(s) == Len(s.tasks) = 0

RECURSIVE nextTaskFrom(_, _)
RECURSIVE taskDone(_, _, _, _)

\* task.start(callback): a synchronous task calls back at once
started(s, task) ==
    IF task.sync THEN taskDone(s, task.n, TRUE, <<>>)
    ELSE [s EXCEPT !.inflight = @ \cup {task.n}]

\* task.status = Task.RUNNING; task.start(this.taskDone.bind(this, task))
dispatched(s, i) ==
    started([s EXCEPT !.tasks[i].status = RUNNING,
                      !.log = Append(@, <<"dispatch", s.tasks[i].n, 0>>)],
            s.tasks[i])

\* after a dispatch the loop goes on, unless the load is serial
resumed(s, i) ==
    IF s.err # "none" \/ stopsAfterOne(s) THEN s ELSE nextTaskFrom(s, i + 1)

\* a nextTask that starts every task it meets, running ones too
nextTaskFromAny(s, i) ==
    IF s.err # "none" \/ i > Len(s.tasks) THEN s
    ELSE resumed(dispatched(s, i), i)

\* AssetLoad.nextTask: the loop from index i on
nextTaskFrom(s, i) ==
    IF s.err # "none" \/ i > Len(s.tasks) THEN s
    ELSE IF s.tasks[i].status = WAITING THEN resumed(dispatched(s, i), i)
    ELSE nextTaskFrom(s, i + 1)

nextTask(s) == nextTaskFrom(s, 1)

\* taskDone takes the task off the list: this.tasks.splice(index, 1)
taken(s, index, result) ==
    [s EXCEPT !.tasks = splice(@, index),
              !.log = Append(@, <<"done", s.tasks[index].n, result>>)]

\* if (task.cache) once the result is in the container
written(s, task, result) ==
    IF s.err = "none" THEN cacheWrite(s, task, result) ELSE s

\* if (result) { switch (this.mode) ...; if (task.cache) ... }
handled(s, task, result) ==
    IF result # 0 THEN written(foldResult(s, task, result), task, result) ELSE s

\* a listener of this taskDone event may call reset() on the load
heard(s) ==
    IF s.listener = "reset"
    THEN reset([s EXCEPT !.listener = "none", !.log = <<>>, !.violated = FALSE])
    ELSE s

\* a taskDone that writes to the cache only after the hook and the listeners
notifiedThenWritten(s, task, result) ==
    IF s.err # "none" THEN s
    ELSE heard([s EXCEPT !.log =
                   Append(@, <<"hook", task.n, result>>)
                   \o <<<<"taskDone", task.n, result, task>>>>
                   \o (IF task.cache /\ result # 0
                       THEN <<<<"cache", task.id, result>>>> ELSE <<>>)])

\* task.complete(result, original, assets) and trigger('taskDone', ...)
notified(s, task, result) ==
    IF s.err # "none" THEN s
    ELSE heard([s EXCEPT !.log = Append(@, <<"hook", task.n, result>>)
                                 \o <<<<"taskDone", task.n, result, task>>>>])

\* task.destroy() once the hook and the listeners have run
ended(s, task) ==
    IF s.err # "none" THEN s ELSE [s EXCEPT !.destroyed = @ \cup {task.n}]

\* this.trigger('progress', ++this.numLoaded / this.total)
counted(s) ==
    IF s.err # "none" THEN s
    ELSE [s EXCEPT !.numLoaded = @ + 1,
                   !.log = Append(@, <<"progress", s.numLoaded + 1, s.total,
                                       Len(s.tasks)>>)]

\* what the hook and the listeners left in assets is added: addTasks(assets)
admitted(s, more) ==
    IF s.err # "none" THEN s
    ELSE counted(addTasks(s, [shape |-> "array", items |-> more]))

\* the shape check, then the next task or the complete event
concluded(s) ==
    IF s.err # "none" THEN s
    ELSE IF ShapeViolated(s) THEN shapeViolation(s)
    ELSE IF ~finished(s) THEN nextTask(s)
    ELSE [s EXCEPT !.log = Append(@, <<"complete", s.results, Len(s.tasks)>>)]

\* taskDone after the task was found pending at index
taskDoneAt(s, index, gives, more) ==
    LET task == s.tasks[index]
        result == IF gives THEN task.n ELSE 0
    IN concluded(admitted(ended(notified(handled(taken(s, index, result), task, result),
                                         task, result), task), more))

\* a taskDone that counts a task it does not find in the list
taskDoneCounting(s, n, gives, more) ==
    IF ~s.running THEN s
    ELSE IF indexOf(s.tasks, n) = 0
         THEN [s EXCEPT !.numLoaded = @ + 1,
                        !.log = Append(@, <<"progress", s.numLoaded + 1, s.total,
                                            Len(s.tasks)>>)]
    ELSE taskDoneAt(s, indexOf(s.tasks, n), gives, more)

\* AssetLoad.taskDone(task, result); task n, result given or not
taskDone(s, n, gives, more) ==
    IF ~s.running THEN s
    ELSE IF indexOf(s.tasks, n) = 0 THEN s
    ELSE taskDoneAt(s, indexOf(s.tasks, n), gives, more)

\* AssetLoad.start
start(s) ==
    nextTask([s EXCEPT !.log = Append(@, <<"progress", 0, 1, Len(s.tasks)>>),
                       !.running = TRUE])

\* this.mode = (what addTasks returned); this.results = this._getAssetsContainer(mode)
shaped(s) ==
    IF s.err # "none" THEN s
    ELSE [s EXCEPT !.mode = s.rmode, !.results = getAssetsContainer(s.rmode)]

\* if (options.autoStart) this.start()
begun(s, options) ==
    IF s.err # "none" \/ ~options.autoStart THEN s ELSE start(s)

\* AssetLoad.setup
setup(s, assets, options) ==
    begun(shaped(addTasks([s EXCEPT !.startAll = options.startAll,
                                    !.cacheAll = options.cacheAll,
                                    !.type = options.type], assets)),
          options)

\* --------------------------------------------------------------- Loader
\* The Loader is a record L: items maps a url to the LoaderItem loading it
\* (NoItem when none), itemPool is the stack of idle items, slots holds the
\* LoaderItem objects made so far (an item is its index), calls lists the tasks
\* whose completion callback was invoked, oldest first. got and ret are the
\* locals of the running operation.
NoItem == 0
NoUrl == 0
Urls == 1..MaxUrl

\* new LoaderItem()
NewItem == [url |-> NoUrl, req |-> 0, busy |-> FALSE]

\* Loader._getItem
getItem(L) ==
    IF Len(L.itemPool) > 0
    THEN [L EXCEPT !.got = L.itemPool[Len(L.itemPool)],
                   !.itemPool = SubSeq(@, 1, Len(@) - 1)]
    ELSE [L EXCEPT !.got = Len(L.slots) + 1, !.slots = Append(@, NewItem)]

\* Loader.load once it holds an item: the item gets the url and the callback
\* of task n, is entered in the active map under the url, and starts
configured(L, url, n) ==
    [L EXCEPT !.slots[L.got] = [url |-> url, req |-> n, busy |-> TRUE],
              !.items[url] = L.got]

\* Loader.load(url, complete, progress, data), complete being the callback of task n
load(L, url, n) == configured(getItem(L), url, n)

\* LoaderItem.clear: the transport is aborted and the callbacks are dropped
clear(L, item) == [L EXCEPT !.slots[item].busy = FALSE, !.slots[item].req = 0]

\* delete this.items[item.url]
deleted(L, item) ==
    [L EXCEPT !.items = [u \in Urls |-> IF u = L.slots[item].url THEN NoItem ELSE @[u]]]

pushed(L, item) == [L EXCEPT !.itemPool = Append(@, item)]

\* Loader._putItem(item)
putItem(L, item) == pushed(clear(deleted(L, item), item), item)

\* a cancel that reports a cancellation whatever it found
cancelReportingTrue(L, url) ==
    IF L.items[url] # NoItem
    THEN [putItem(clear(L, L.items[url]), L.items[url]) EXCEPT !.ret = TRUE]
    ELSE [L EXCEPT !.ret = TRUE]

\* Loader.cancel(url)
cancel(L, url) ==
    IF L.items[url] # NoItem
    THEN [putItem(clear(L, L.items[url]), L.items[url]) EXCEPT !.ret = TRUE]
    ELSE [L EXCEPT !.ret = FALSE]

\* the transport of an item ends and Loader._onComplete invokes the callback
\* the item holds
invoked(L, item) ==
    [L EXCEPT !.calls = Append(@, L.slots[item].req), !.slots[item].busy = FALSE]

\* Loader._onComplete after complete(result): the item goes back to the pool,
\* unless complete threw
returned(L, item, thrown) == IF thrown # "none" THEN L ELSE putItem(L, item)

\* LoadTask.start of each task of ns, in this order: simpleLoad(this.src, ...)
RECURSIVE simpleLoads(_, _, _)
simpleLoads(L, ns, src) ==
    IF Len(ns) = 0 THEN L
    ELSE simpleLoads(load(L, src[Head(ns)], Head(ns)), Tail(ns), src)

\* ------------------------------------------------------------ AssetSizes
\* AssetSizes is a record Z: sizes is _sizes, sizesMap is _sizesMap and
\* preferredSize is _preferredSize; ret and err are what the running operation
\* returns and throws. A size object is [id, maxSize, fallback]; its scale is
\* stored and never read by AssetSizes. null and undefined are the size
\* objects NoSize and UndefinedSize.
SizeIds == {"tiny", "sd", "hd"}
MaxSizes == {100, 800}
Sides == {50, 100, 900}
Ratios == {0, 1, 2}
NoSize == [id |-> "null", maxSize |-> 0, fallback |-> <<>>]
UndefinedSize == [id |-> "undefined", maxSize |-> 0, fallback |-> <<>>]

Orders(n) == { f \in [1..n -> 1..n] : \A i, j \in 1..n : i # j => f[i] # f[j] }

\* what this._sizes.sort(by maxSize) can make of q: every order of q that
\* ascends by maxSize, the sort of a build being stable or not
SortedByMaxSize(q) ==
    { [i \in 1..Len(q) |-> q[f[i]]] :
        f \in { g \in Orders(Len(q)) :
                  \A i \in 1..(Len(q) - 1) : q[g[i]].maxSize <= q[g[i + 1]].maxSize } }

\* a define that pushes the size and leaves the list as it is
definePushing(Z, profile, sorted) ==
    [Z EXCEPT !.sizesMap[profile.id] = profile, !.sizes = Append(@, profile)]

\* AssetSizes.define(id, maxSize, scale, fallback), sorted being what the
\* sort leaves
define(Z, profile, sorted) ==
    [Z EXCEPT !.sizesMap[profile.id] = profile, !.sizes = sorted]

Min(a, b) == IF a < b THEN a ELSE b

\* the loop of refresh at index i, profile being the size found so far;
\* maxSize / devicePixelRatio > minSize, with both sides multiplied by the ratio
RECURSIVE scan(_, _, _, _, _)
scan(q, i, ratio, minSize, profile) ==
    IF i = 0 THEN profile
    ELSE IF q[i].maxSize > minSize * ratio
         THEN scan(q, i - 1, ratio, minSize, q[i])
         ELSE profile

\* include('devicePixelRatio', false) || 1
pixelRatio(raw) == IF raw = 0 THEN 1 ELSE raw

\* AssetSizes.refresh(width, height) under the devicePixelRatio raw
refresh(Z, width, height, raw) ==
    [Z EXCEPT !.preferredSize =
        scan(Z.sizes, Len(Z.sizes), pixelRatio(raw), Min(width, height), NoSize)]

\* the loop of size over the fallback: the first alternative that the map
\* does not mark false, "none" when there is none
RECURSIVE firstAlt(_, _)
firstAlt(fallback, supported) ==
    IF Len(fallback) = 0 THEN "none"
    ELSE IF supported[Head(fallback)] # "false" THEN Head(fallback)
         ELSE firstAlt(Tail(fallback), supported)

\* a loop that leaves size as it found it
chosenPreferred(Z, alt) == Z.preferredSize

\* the size object the loop of size leaves in size
chosen(Z, alt) == IF alt = "none" THEN Z.preferredSize ELSE Z.sizesMap[alt]

\* the end of size: if (!size) throw ...; return size
answered(Z, profile) ==
    IF profile \in {NoSize, UndefinedSize}
    THEN [Z EXCEPT !.err = "Asset does not support any valid size"]
    ELSE [Z EXCEPT !.ret = profile]

\* AssetSizes.size(supported); supported.given tells whether a map was passed
size(Z, supported) ==
    IF Z.preferredSize = NoSize THEN [Z EXCEPT !.err = "TypeError"]
    ELSE IF supported.given /\ supported.map[Z.preferredSize.id] # "true"
         THEN answered(Z, chosen(Z, firstAlt(Z.preferredSize.fallback, supported.map)))
         ELSE answered(Z, Z.preferredSize)

\* ----------------------------------------------------------- DelayedCall
\* the ticker as the call sees it: on and off subscribe and unsubscribe _update,
\* has tells whether it is subscribed
on(D) == [D EXCEPT !.has = TRUE]

off(D) == [D EXCEPT !.has = FALSE]

\* no DelayedCall was made yet
NoCall ==
    [made |-> FALSE, ticker |-> FALSE, callback |-> FALSE, has |-> FALSE, delay |-> 0,
     timer |-> 0, repeat |-> FALSE, autoDestroy |-> FALSE, useFrames |-> FALSE,
     paused |-> FALSE, fired |-> 0, restarted |-> FALSE, err |-> "none"]

CallOptions == [repeat : BOOLEAN, autoDestroy : BOOLEAN, useFrames : BOOLEAN]

\* new DelayedCall(ticker, callback, delay, options)
DelayedCall(delay, options) ==
    on([NoCall EXCEPT !.made = TRUE, !.ticker = TRUE, !.callback = TRUE,
                      !.delay = delay, !.timer = delay, !.repeat = options.repeat,
                      !.autoDestroy = options.autoDestroy,
                      !.useFrames = options.useFrames])

\* destroy(); this._ticker is null once destroyed
destroy(D) ==
    IF ~D.ticker THEN [D EXCEPT !.err = "TypeError"]
    ELSE [off(D) EXCEPT !.callback = FALSE, !.ticker = FALSE]

\* restart(); restarted records that the call passed the test of _callback
restart(D) ==
    IF ~D.callback THEN D
    ELSE [(IF ~D.has THEN on(D) ELSE D) EXCEPT
             !.timer = D.delay, !.paused = FALSE, !.restarted = TRUE]

\* stop()
stop(D) ==
    IF ~D.ticker THEN [D EXCEPT !.err = "TypeError"]
    ELSE [off(D) EXCEPT !.paused = FALSE]

\* set paused(value)
setPaused(D, value) ==
    IF ~D.callback THEN D
    ELSE IF D.paused /\ ~value THEN [(IF ~D.has THEN on(D) ELSE D) EXCEPT !.paused = FALSE]
    ELSE IF value /\ D.has THEN [off(D) EXCEPT !.paused = TRUE]
    ELSE D

\* this._callback(this): the callback does nothing to the call, or restarts it
CallbackDoes == {"nothing", "restart"}

invokedCallback(D, does) ==
    IF does = "restart" THEN restart([D EXCEPT !.fired = @ + 1])
    ELSE [D EXCEPT !.fired = @ + 1]

\* what _update does once the callback has returned
rearmed(D) ==
    IF D.repeat THEN [D EXCEPT !.timer = @ + D.delay]
    ELSE IF D.autoDestroy THEN destroy(D)
    ELSE off(D)

elapsedOff(D, elapsed) ==
    [D EXCEPT !.timer = @ - (IF D.useFrames THEN 1 ELSE elapsed)]

expired(D, does) ==
    IF D.timer <= 0 THEN rearmed(invokedCallback(D, does)) ELSE D

\* _update(elapsed)
update(D, elapsed, does) ==
    IF ~D.callback THEN destroy(D) ELSE expired(elapsedOff(D, elapsed), does)

\* -------------------------------------------------------------- VOPlayer
\* what a list holds: the alias of a sound, an alias that has no sound but a
\* caption of n milliseconds, a silence of n milliseconds, a function
NullVO == [kind |-> "null", n |-> 0]

VOItems ==
    { [kind |-> "audio", n |-> 0], [kind |-> "function", n |-> 0] }
    \cup [kind : {"caption", "silence"}, n : 1..MaxDuration]

\* VOPlayer constructor; listening is the update listener the player has
\* subscribed, completed that the callback of the list was invoked
NoPlayer ==
    [captions |-> FALSE, voList |-> <<>>, listed |-> FALSE, listCounter |-> 0,
     currentVO |-> NullVO, soundInstance |-> FALSE, timer |-> 0, callback |-> FALSE,
     cancelledCallback |-> FALSE, paused |-> FALSE, listening |-> "none",
     completed |-> FALSE, stopped |-> FALSE]

\* get playing
playing(P) == P.currentVO # NullVO \/ P.timer > 0

\* stop()
stopPlaying(P) ==
    [P EXCEPT !.paused = FALSE, !.soundInstance = FALSE, !.currentVO = NullVO,
              !.listening = "none", !.voList = <<>>, !.listed = FALSE, !.timer = 0,
              !.callback = FALSE, !.cancelledCallback = FALSE]

\* _playSound(): the alias has no sound and the captions know it, or the sound
\* is played
playSound(P) ==
    IF P.currentVO.kind = "caption" /\ P.captions
    THEN [P EXCEPT !.timer = 0, !.listening = "solo"]
    ELSE [P EXCEPT !.soundInstance = TRUE,
                   !.listening = IF P.captions THEN "sync" ELSE @]

\* the list is complete
listComplete(P) ==
    [P EXCEPT !.currentVO = NullVO, !.cancelledCallback = FALSE, !.callback = FALSE,
              !.completed = P.callback]

\* a silence is set up
silent(P) ==
    [P EXCEPT !.timer = P.currentVO.n, !.currentVO = NullVO, !.listening = "silence"]

\* the item the list counter has come to
current(P) == [P EXCEPT !.currentVO = P.voList[P.listCounter + 1]]

\* the update listeners go, the sound instance is cleared, the list advances
advanced(P) ==
    [P EXCEPT !.listening = "none", !.soundInstance = FALSE, !.listCounter = @ + 1]

RECURSIVE onSoundFinished(_)
\* _onSoundFinished()
onSoundFinished(P) ==
    IF advanced(P).listCounter >= Len(P.voList) THEN listComplete(advanced(P))
    ELSE IF current(advanced(P)).currentVO.kind \in {"audio", "caption"}
         THEN playSound(current(advanced(P)))
    ELSE IF current(advanced(P)).currentVO.kind = "function"
         THEN onSoundFinished(current(advanced(P)))
    ELSE silent(current(advanced(P)))

\* play(idOrList, callback, cancelledCallback)
play(P, list, callback, cancelledCallback) ==
    onSoundFinished([stopPlaying(P) EXCEPT
                        !.listCounter = -1, !.voList = list, !.listed = TRUE,
                        !.callback = callback,
                        !.cancelledCallback = cancelledCallback])

\* _updateSilence(elapsed)
updateSilence(P, elapsed) ==
    IF P.timer - elapsed <= 0 THEN onSoundFinished([P EXCEPT !.timer = @ - elapsed])
    ELSE [P EXCEPT !.timer = @ - elapsed]

\* _updateSoloCaption(elapsed); the caption playing lasts currentVO.n
updateSoloCaption(P, elapsed) ==
    IF P.timer + elapsed >= P.currentVO.n
    THEN onSoundFinished([P EXCEPT !.timer = @ + elapsed])
    ELSE [P EXCEPT !.timer = @ + elapsed]

\* ------------------------------------------------------------ the machine
VARIABLES
    taskDefs,    \* manager.taskDefs, the registry
    build,       \* "debug" or "release": which preprocessor branches are compiled
    mode, startAll, cacheAll, type, tasks, results, running, numLoaded, total,
    nextN,       \* number of the next task object created
    destroyed,   \* the tasks destroy() was called on, by taskDone or by reset
    inflight,    \* started tasks whose callback has not fired yet (also of a load reset since)
    log,         \* everything the load emitted since setup, oldest first
    err,         \* what the last operation threw, "none" if it returned
    violated,    \* the load has reported a shape violation since setup
    lastOp,      \* the last operation called
    starts,      \* explicit start() calls so far
    setups,      \* setup() calls so far
    submitted    \* the assets the load was set up with, an empty array once reset

VARIABLES
    items,       \* Loader.items, the active map
    itemPool,    \* Loader.itemPool
    slots,       \* the LoaderItem objects made so far
    calls,       \* the tasks whose completion callback was invoked, oldest first
    cancelled,   \* <<url, returned>> of the last Loader.cancel, <<>> before the first
    asked        \* the url each started task asked the Loader for

VARIABLES
    sizes,          \* AssetSizes._sizes
    sizesMap,       \* AssetSizes._sizesMap
    preferredSize,  \* AssetSizes._preferredSize
    viewport,       \* <<width, height, devicePixelRatio>> of the refresh just made
    sized           \* what the last size(supported) was asked, returned and threw

VARIABLES
    call,           \* the DelayedCall of the application, NoCall before it is made
    player          \* the VOPlayer of the application

loaderVars == <<items, itemPool, slots, calls, cancelled, asked>>

sizesVars == <<sizes, sizesMap, preferredSize, viewport, sized>>

\* everything but the load and its history, and everything but the Loader
beyondLoad == <<loaderVars, sizesVars, call, player>>
beyondLoader == <<sizesVars, call, player>>

loadVars == <<taskDefs, build, mode, startAll, cacheAll, type, tasks, results, running,
              numLoaded, total, nextN, destroyed, inflight, log, err, violated>>

\* everything but AssetSizes and the last operation
beyondSizes == <<loadVars, starts, setups, submitted, loaderVars, call, player>>

\* everything but the DelayedCall and the last operation
beyondCall == <<loadVars, starts, setups, submitted, loaderVars, sizesVars, player>>

\* everything but the VOPlayer and the last operation
beyondPlayer == <<loadVars, starts, setups, submitted, loaderVars, sizesVars, call>>

vars == <<taskDefs, build, mode, startAll, cacheAll, type, tasks, results, running,
          numLoaded, total, nextN, destroyed, inflight, log, err, violated, lastOp, starts,
          setups,
          submitted, items, itemPool, slots, calls, cancelled, asked,
          sizes, sizesMap, preferredSize, viewport, sized, call, player>>

\* the load as one record, with the locals of the running operation
Load ==
    [taskDefs |-> taskDefs, build |-> build, mode |-> mode, startAll |-> startAll,
     cacheAll |-> cacheAll, type |-> type, tasks |-> tasks, results |-> results,
     running |-> running, numLoaded |-> numLoaded, total |-> total, nextN |-> nextN,
     destroyed |-> destroyed, inflight |-> inflight, log |-> log, violated |-> violated,
     err |-> "none", ret |-> NoTask, rmode |-> MAP_MODE, listener |-> "none"]

\* the load becomes s
Stored(s) ==
    /\ mode' = s.mode
    /\ startAll' = s.startAll
    /\ cacheAll' = s.cacheAll
    /\ type' = s.type
    /\ tasks' = s.tasks
    /\ results' = s.results
    /\ running' = s.running
    /\ numLoaded' = s.numLoaded
    /\ total' = s.total
    /\ nextN' = s.nextN
    /\ destroyed' = s.destroyed
    /\ inflight' = s.inflight
    /\ log' = s.log
    /\ violated' = s.violated
    /\ err' = s.err
    /\ UNCHANGED <<taskDefs, build>>

\* the load becomes what the operation made of it, having created at most
\* limit task objects so far
Becomes(after, limit) ==
    \E s \in {after} : s.nextN <= limit + 1 /\ Stored(s)

\* the loads of the application carry no default type tag and no cache default
Options == [startAll : BOOLEAN, cacheAll : {FALSE}, type : {"null"}, autoStart : BOOLEAN]

\* how a started task ends: without a result, or with one and the further assets
\* its completion hook and the taskDone listeners append
Outcomes ==
    { [gives |-> FALSE, more |-> <<>>] }
    \cup { [gives |-> TRUE, more |-> m] : m \in MoreAssets }

SeqsUpTo(S, n) == UNION { [1..k -> S] : k \in 0..n }

Submissions ==
    { [shape |-> "bare", one |-> d] : d \in Descs }
    \cup { [shape |-> "array", items |-> q] : q \in SeqsUpTo(Descs, MaxLen) }
    \cup { [shape |-> "object", obj |-> o] :
             o \in UNION { [K -> KeyedDescs] : K \in SUBSET (1..MaxId) } }

NotSized == [given |-> FALSE, map |-> [id \in SizeIds |-> "undefined"],
             ret |-> NoSize, err |-> "none"]

\* AssetSizes constructor
InitSizes ==
    /\ sizes = <<>>
    /\ sizesMap = [id \in SizeIds |-> UndefinedSize]
    /\ preferredSize = NoSize
    /\ viewport = <<0, 0, 0>>
    /\ sized = NotSized

\* Loader constructor
InitLoader ==
    /\ items = [u \in Urls |-> NoItem]
    /\ itemPool = <<>>
    /\ slots = <<>>
    /\ calls = <<>>
    /\ cancelled = <<>>
    /\ asked = <<>>

\* AssetLoad constructor
InitLoad ==
    /\ build \in {"debug", "release"}
    /\ mode = MAP_MODE
    /\ startAll = TRUE
    /\ cacheAll = FALSE
    /\ tasks = <<>>
    /\ results = [k |-> "null", e |-> <<>>]
    /\ running = FALSE
    /\ numLoaded = 0
    /\ total = 0
    /\ type = "null"
    /\ nextN = 1
    /\ destroyed = {}
    /\ inflight = {}
    /\ log = <<>>
    /\ err = "none"
    /\ violated = FALSE
    /\ lastOp = "new"
    /\ starts = 0
    /\ setups = 0
    /\ submitted = [shape |-> "array", items |-> <<>>]
    /\ InitLoader
    /\ InitSizes
    /\ call = NoCall
    /\ player = NoPlayer

\* the variants are registered when the application starts, in this order
Init ==
    /\ taskDefs = <<"LoadTask", "ColorAlphaTask", "TextureTask">>
    /\ InitLoad

\* a variant is registered, before the first load is set up
Register(cls) ==
    /\ setups = 0
    /\ \A i \in 1..Len(taskDefs) : taskDefs[i] # cls
    /\ taskDefs' = Registered(taskDefs, cls)
    /\ lastOp' = "register"
    /\ UNCHANGED <<build, mode, startAll, cacheAll, type, tasks, results, running,
                   numLoaded, total, nextN, destroyed, inflight, log, err, violated, starts,
                   setups,
                   submitted>>
    /\ UNCHANGED beyondLoad

\* setup(assets, options) on a load that is new or was reset; a bare record
\* is one that a registered variant accepts
Setup(assets, options) ==
    /\ assets.shape = "bare" /\ assets.one.raw = "record" =>
          getTaskByAsset(taskDefs, WithType([type |-> options.type], assets.one)) # "null"
    /\ Becomes(setup([Load EXCEPT !.log = <<>>, !.violated = FALSE], assets, options),
               MaxTasks)
    /\ submitted' = assets
    /\ lastOp' = "setup"
    /\ setups' = setups + 1
    /\ UNCHANGED starts
    /\ UNCHANGED beyondLoad

\* start() called by the owner of the load
Start ==
    /\ starts < MaxStarts
    /\ setups > 0
    /\ Becomes(start(Load), MaxTasks)
    /\ lastOp' = "start"
    /\ starts' = starts + 1
    /\ UNCHANGED <<setups, submitted>>
    /\ UNCHANGED beyondLoad

\* the callback of a started task fires: taskDone(task, result)
Called(n, gives, more, limit) ==
    /\ n \in inflight
    /\ Becomes(taskDone([Load EXCEPT !.inflight = @ \ {n}], n, gives, more), limit)
    /\ lastOp' = "taskDone"
    /\ UNCHANGED <<starts, setups, submitted>>
    /\ UNCHANGED beyondLoad

\* a started task of a load ends with outcome o
Complete(n, o) == Called(n, o.gives, o.more, MaxTasks)

\* reset() called by the owner of the load
Reset ==
    /\ setups > 0
    /\ lastOp # "reset"
    /\ Becomes(reset([Load EXCEPT !.log = <<>>, !.violated = FALSE]), MaxTasks)
    /\ submitted' = [shape |-> "array", items |-> <<>>]
    /\ lastOp' = "reset"
    /\ UNCHANGED <<starts, setups>>
    /\ UNCHANGED beyondLoad

\* the owner sets up a load that is new or was reset
Idle == setups < MaxSetups /\ ~running /\ tasks = <<>>

Next ==
    \/ Idle /\ \E assets \in Submissions, options \in Options : Setup(assets, options)
    \/ Start
    \/ \E n \in inflight, o \in Outcomes : Complete(n, o)
    \/ Reset

Spec == Init /\ [][Next]_vars

\* ------------------------------------------------- the registry on its own
InitRegistry ==
    /\ taskDefs = <<>>
    /\ InitLoad

OneSubmissions ==
    { [shape |-> "bare", one |-> d] : d \in RegistryDescs }
    \cup { [shape |-> "array", items |-> <<d>>] : d \in RegistryDescs }

TypedOptions == [startAll : {TRUE}, cacheAll : {FALSE}, type : {"null", "pixi"},
                 autoStart : {TRUE}]

PlainOutcomes == { o \in Outcomes : o.more = <<>> }

NextRegistry ==
    \/ \E cls \in Variants : Register(cls)
    \/ Idle /\ \E assets \in OneSubmissions, options \in TypedOptions :
                  Setup(assets, options)
    \/ \E n \in inflight, o \in PlainOutcomes : Complete(n, o)

SpecRegistry == InitRegistry /\ [][NextRegistry]_vars

\* ------------------------------------------- progress under many admissions
MaxProgressTasks == 5

ThreeMore == <<StringDesc, StringDesc, StringDesc>>

ProgressSubmissions ==
    { [shape |-> "array", items |-> q] : q \in SeqsUpTo({StringDesc, IdDesc}, MaxLen) }

ProgressOptions == [startAll : BOOLEAN, cacheAll : {FALSE}, type : {"null"},
                    autoStart : {TRUE}]

\* a started task ends with a result, its hook appending more
CompleteMore(n, more) == Called(n, TRUE, more, MaxProgressTasks)

NextProgress ==
    \/ Idle /\ \E assets \in ProgressSubmissions, options \in ProgressOptions :
                  Setup(assets, options)
    \/ \E n \in inflight, more \in {<<>>, ThreeMore} : CompleteMore(n, more)

SpecProgress == Init /\ [][NextProgress]_vars

\* ------------------------------------ listeners that reset the load
ListenerSubmissions ==
    { [shape |-> "array", items |-> q] : q \in SeqsUpTo({StringDesc, IdDesc}, MaxLen) }

\* a started task ends with outcome o, and a listener of its taskDone event (or
\* its completion hook) calls reset() on the load while taskDone is executing
CompleteResetting(n, o) ==
    /\ n \in inflight
    /\ running /\ indexOf(tasks, n) # 0
    /\ Becomes(taskDone([Load EXCEPT !.inflight = @ \ {n}, !.listener = "reset"],
                        n, o.gives, o.more), MaxTasks)
    /\ submitted' = [shape |-> "array", items |-> <<>>]
    /\ lastOp' = "reset"
    /\ UNCHANGED <<starts, setups>>
    /\ UNCHANGED beyondLoad

\* the owner takes the load from the pool once more
IdleAgain == setups <= MaxSetups /\ ~running /\ tasks = <<>>

NextListener ==
    \/ IdleAgain /\ \E assets \in ListenerSubmissions, options \in ProgressOptions :
                       Setup(assets, options)
    \/ \E n \in inflight, o \in PlainOutcomes : Complete(n, o)
    \/ \E n \in inflight, o \in PlainOutcomes : CompleteResetting(n, o)

SpecListener == Init /\ [][NextListener]_vars

\* ----------------------------------------- every started task calls back
LiveSubmissions ==
    { [shape |-> "array", items |-> q] : q \in SeqsUpTo({StringDesc, IdDesc}, MaxLen) }
    \cup { [shape |-> "object", obj |-> o] :
             o \in UNION { [K -> {StringDesc}] : K \in SUBSET (1..MaxId) } }

\* a started task calls back, with a result or without
Finish == \E n \in inflight, o \in PlainOutcomes : Complete(n, o)

NextLive ==
    \/ Idle /\ \E assets \in LiveSubmissions, options \in Options : Setup(assets, options)
    \/ Start
    \/ Finish

\* no started task is left without its callback
SpecLive == Init /\ [][NextLive]_vars /\ WF_vars(Finish)

\* ------------------------------------------------- loads that cache
UncachedDesc == [raw |-> "record", f |-> "src", type |-> "undef", id |-> 1,
                 cache |-> "no", sync |-> FALSE]

CacheSubmissions ==
    { [shape |-> "array", items |-> q] :
        q \in SeqsUpTo({IdDesc, CachedDesc, UncachedDesc}, MaxLen) }

CacheOptions == [startAll : {TRUE}, cacheAll : BOOLEAN, type : {"null"},
                 autoStart : {TRUE}]

\* what a completion hook of these loads appends
CacheMore == <<IdDesc>>

CacheOutcomes == { o \in Outcomes : o.more \in {<<>>, CacheMore} }

NextCache ==
    \/ Idle /\ \E assets \in CacheSubmissions, options \in CacheOptions :
                  Setup(assets, options)
    \/ \E n \in inflight, o \in CacheOutcomes : Complete(n, o)

SpecCache == Init /\ [][NextCache]_vars

\* ------------------------------------------- loads through the Loader
\* the Loader of the application as one record, with the locals of the running
\* operation
Loader ==
    [items |-> items, itemPool |-> itemPool, slots |-> slots, calls |-> calls,
     got |-> NoItem, ret |-> FALSE]

\* the Loader becomes L
Loaded(L) ==
    /\ items' = L.items
    /\ itemPool' = L.itemPool
    /\ slots' = L.slots
    /\ calls' = L.calls

\* the tasks started by the operation that made s of the load
Begun(s) == s.inflight \ inflight

\* the started tasks ask for the urls src
Asked(ns, src) == asked' = asked \o [i \in 1..Len(ns) |-> <<ns[i], src[ns[i]]>>]

LoaderSubmissions ==
    { [shape |-> "array", items |-> q] : q \in SeqsUpTo({StringDesc, IdDesc}, MaxLen) }

LoaderOutcomes == { o \in Outcomes : o.more \in {<<>>, <<StringDesc>>} }

\* setup(assets, options) of a load of LoadTasks: each task setup starts asks
\* the Loader for its src
SetupLoading(assets, options) ==
    /\ \E s \in {setup([Load EXCEPT !.log = <<>>, !.violated = FALSE], assets, options)} :
          /\ s.nextN <= MaxTasks + 1
          /\ Stored(s)
          /\ \E src \in [Begun(s) -> Urls] :
                /\ Loaded(simpleLoads(Loader, Ascending(Begun(s)), src))
                /\ Asked(Ascending(Begun(s)), src)
    /\ submitted' = assets
    /\ lastOp' = "setup"
    /\ setups' = setups + 1
    /\ UNCHANGED <<starts, cancelled>>
    /\ UNCHANGED beyondLoader

\* what the completion hook or a taskDone listener does to the Loader while
\* taskDone is executing: nothing, or cancel(url)
heardByLoader(L, url) == IF url = NoUrl THEN L ELSE cancel(L, url)

\* the transport of an item ends with outcome o: Loader._onComplete calls the
\* callback of LoadTask.start, which calls taskDone; the tasks taskDone starts
\* ask the Loader for their src before _onComplete returns the item
LoadCompletes(item, o, url) ==
    /\ slots[item].busy
    /\ url # NoUrl => running /\ indexOf(tasks, slots[item].req) # 0
    /\ \E s \in {taskDone([Load EXCEPT !.inflight = @ \ {slots[item].req}],
                          slots[item].req, o.gives, o.more)} :
          /\ s.nextN <= MaxTasks + 1
          /\ Stored(s)
          /\ \E src \in [Begun(s) -> Urls] :
                /\ Loaded(returned(simpleLoads(heardByLoader(invoked(Loader, item), url),
                                               Ascending(Begun(s)), src),
                                   item, s.err))
                /\ Asked(Ascending(Begun(s)), src)
    /\ Len(itemPool') <= MaxPool
    /\ lastOp' = "taskDone"
    /\ UNCHANGED <<starts, setups, submitted, cancelled>>
    /\ UNCHANGED beyondLoader

\* a cancel whose aborted item calls back without a result
CancelCallingBack(url) ==
    /\ \E L \in {cancel(Loader, url)} :
          /\ Len(L.itemPool) <= MaxPool
          /\ Loaded(L)
          /\ cancelled' = <<url, L.ret>>
    /\ IF items[url] # NoItem /\ slots[items[url]].req # 0
       THEN Becomes(taskDone([Load EXCEPT !.inflight = @ \ {slots[items[url]].req}],
                             slots[items[url]].req, FALSE, <<>>), MaxTasks)
       ELSE UNCHANGED loadVars
    /\ lastOp' = "cancel"
    /\ UNCHANGED <<starts, setups, submitted, asked>>
    /\ UNCHANGED beyondLoader

\* Loader.cancel(url) called by the application
Cancel(url) ==
    /\ \E L \in {cancel(Loader, url)} :
          /\ Len(L.itemPool) <= MaxPool
          /\ Loaded(L)
          /\ cancelled' = <<url, L.ret>>
    /\ lastOp' = "cancel"
    /\ UNCHANGED loadVars
    /\ UNCHANGED <<starts, setups, submitted, asked>>
    /\ UNCHANGED beyondLoader

NextLoader ==
    \/ IdleAgain /\ \E assets \in LoaderSubmissions, options \in ProgressOptions :
                       SetupLoading(assets, options)
    \/ \E item \in 1..Len(slots), o \in LoaderOutcomes, url \in {NoUrl} \cup Urls :
          LoadCompletes(item, o, url)
    \/ \E url \in Urls : Cancel(url)
    \/ Reset

SpecLoader == Init /\ [][NextLoader]_vars

\* ------------------------------------------------- sizes on their own
AssetSizes ==
    [sizes |-> sizes, sizesMap |-> sizesMap, preferredSize |-> preferredSize,
     ret |-> NoSize, err |-> "none"]

\* the fields of AssetSizes become those of Z
Resized(Z) ==
    /\ sizes' = Z.sizes
    /\ sizesMap' = Z.sizesMap
    /\ preferredSize' = Z.preferredSize

\* a fallback names other sizes, each once
Fallbacks(id) ==
    { q \in SeqsUpTo(SizeIds \ {id}, MaxFallback) :
        \A i, j \in 1..Len(q) : i # j => q[i] # q[j] }

Profiles ==
    UNION { [id : {id}, maxSize : MaxSizes, fallback : Fallbacks(id)] : id \in SizeIds }

\* no map, or a map that says true or false of an id or has no entry for it
Supports ==
    { [given |-> FALSE, map |-> [id \in SizeIds |-> "undefined"]] }
    \cup [given : {TRUE}, map : [SizeIds -> {"true", "false", "undefined"}]]

\* define(id, maxSize, scale, fallback) called by the application
Define(profile) ==
    /\ Len(sizes) < MaxDefines
    /\ \E sorted \in SortedByMaxSize(Append(sizes, profile)) :
          Resized(define(AssetSizes, profile, sorted))
    /\ lastOp' = "define"
    /\ sized' = NotSized
    /\ viewport' = <<0, 0, 0>>
    /\ UNCHANGED beyondSizes

\* refresh(width, height) called when the stage is resized
Refresh(width, height, raw) ==
    /\ Resized(refresh(AssetSizes, width, height, raw))
    /\ viewport' = <<width, height, raw>>
    /\ lastOp' = "refresh"
    /\ sized' = NotSized
    /\ UNCHANGED beyondSizes

\* size(supported) called for an asset
Size(supported) ==
    /\ sized' = [given |-> supported.given, map |-> supported.map,
                 ret |-> size(AssetSizes, supported).ret,
                 err |-> size(AssetSizes, supported).err]
    /\ lastOp' = "size"
    /\ viewport' = <<0, 0, 0>>
    /\ UNCHANGED <<sizes, sizesMap, preferredSize>>
    /\ UNCHANGED beyondSizes

NextSizes ==
    \/ \E profile \in Profiles : Define(profile)
    \/ \E width \in Sides, height \in Sides, raw \in Ratios : Refresh(width, height, raw)
    \/ \E supported \in Supports : Size(supported)

SpecSizes == Init /\ [][NextSizes]_vars

\* ------------------------------------------- callbacks that come late
\* the loads start every task they admit
StaleOptions == [startAll : {TRUE}, cacheAll : {FALSE}, type : {"null"},
                 autoStart : {TRUE}]

\* the callback of a task that is not in the list fires: the task called back
\* before, or its load was reset since (and maybe set up again)
Stale(n, o) ==
    /\ n \in 1..(nextN - 1)
    /\ ~running \/ indexOf(tasks, n) = 0
    /\ Becomes(taskDone([Load EXCEPT !.inflight = @ \ {n}], n, o.gives, o.more), MaxTasks)
    /\ lastOp' = "stale"
    /\ UNCHANGED <<starts, setups, submitted>>
    /\ UNCHANGED beyondLoad

NextStale ==
    \/ IdleAgain /\ \E assets \in ListenerSubmissions, options \in StaleOptions :
                       Setup(assets, options)
    \/ \E n \in inflight, o \in LoaderOutcomes : Complete(n, o)
    \/ \E n \in 1..MaxTasks, o \in LoaderOutcomes : Stale(n, o)
    \/ Reset

SpecStale == Init /\ [][NextStale]_vars

\* ------------------------------------------- a DelayedCall on its own
\* the call as the next operation finds it
Call == [call EXCEPT !.restarted = FALSE, !.err = "none"]

New(delay, options) ==
    /\ ~call.made
    /\ call' = DelayedCall(delay, options)
    /\ lastOp' = "new"
    /\ UNCHANGED beyondCall

\* the ticker emits update: _update runs if it is subscribed
Update(elapsed, does) ==
    /\ call.has
    /\ call.fired < MaxFired
    /\ call' = update(Call, elapsed, does)
    /\ lastOp' = "update"
    /\ UNCHANGED beyondCall

Restart ==
    /\ call.made
    /\ call' = restart(Call)
    /\ lastOp' = "restart"
    /\ UNCHANGED beyondCall

Stop ==
    /\ call.made
    /\ call' = stop(Call)
    /\ lastOp' = "stop"
    /\ UNCHANGED beyondCall

Paused(value) ==
    /\ call.made
    /\ call' = setPaused(Call, value)
    /\ lastOp' = "paused"
    /\ UNCHANGED beyondCall

Destroy ==
    /\ call.made
    /\ call' = destroy(Call)
    /\ lastOp' = "destroy"
    /\ UNCHANGED beyondCall

NextCall ==
    \/ \E delay \in 1..MaxDelay, options \in CallOptions : New(delay, options)
    \/ \E elapsed \in 1..MaxElapsed, does \in CallbackDoes : Update(elapsed, does)
    \/ Restart
    \/ Stop
    \/ \E value \in BOOLEAN : Paused(value)
    \/ Destroy

SpecCall == Init /\ [][NextCall]_vars

\* ------------------------------------------------ a VOPlayer on its own
\* the player as the next operation finds it
VOPlayer == [player EXCEPT !.stopped = FALSE]

\* set captions, before anything is played
SetCaptions ==
    /\ ~player.listed
    /\ ~player.captions
    /\ player' = [VOPlayer EXCEPT !.captions = TRUE]
    /\ lastOp' = "captions"
    /\ UNCHANGED beyondPlayer

Play(list, callback, cancelledCallback) ==
    /\ player' = play([VOPlayer EXCEPT !.completed = FALSE], list, callback,
                       cancelledCallback)
    /\ lastOp' = "play"
    /\ UNCHANGED beyondPlayer

\* the sound played ends and the Sound calls _onSoundFinished
SoundEnds ==
    /\ player.soundInstance
    /\ player' = onSoundFinished(VOPlayer)
    /\ lastOp' = "soundEnds"
    /\ UNCHANGED beyondPlayer

\* the application emits update to the listener subscribed
AppUpdate(elapsed) ==
    /\ player.listening \in {"silence", "solo"}
    /\ player' = IF player.listening = "silence" THEN updateSilence(VOPlayer, elapsed)
                 ELSE updateSoloCaption(VOPlayer, elapsed)
    /\ lastOp' = "appUpdate"
    /\ UNCHANGED beyondPlayer

StopPlaying ==
    /\ player.listed
    /\ player' = [stopPlaying(VOPlayer) EXCEPT !.stopped = TRUE, !.completed = FALSE]
    /\ lastOp' = "stopPlaying"
    /\ UNCHANGED beyondPlayer

NextPlayer ==
    \/ SetCaptions
    \/ \E list \in SeqsUpTo(VOItems, MaxList), callback \in BOOLEAN,
          cancelledCallback \in BOOLEAN : Play(list, callback, cancelledCallback)
    \/ SoundEnds
    \/ \E elapsed \in 1..MaxElapsed : AppUpdate(elapsed)
    \/ StopPlaying

SpecPlayer == Init /\ [][NextPlayer]_vars

\* ------------------------------------------------------------ properties
Pending == 1..Len(tasks)

RunningTasks == { i \in Pending : tasks[i].status = RUNNING }

WaitingTasks == { i \in Pending : tasks[i].status = WAITING }

Logged(kind) == { j \in 1..Len(log) : log[j][1] = kind }

\* position of the progress 0 event of the last start(), 0 if none
LastStart ==
    LET P == { j \in 1..Len(log) : log[j][1] = "progress" /\ log[j][2] = 0 }
    IN IF P = {} THEN 0 ELSE CHOOSE j \in P : \A k \in P : k <= j

\* C1: in a load set up with the serial policy at most one task is RUNNING in
\* every reachable state, also after a second start() call
C1_SerialOneRunning ==
    ~startAll => Cardinality(RunningTasks) <= 1

\* C2: in serial mode tasks are dispatched in admission order, a task is
\* dispatched only after taskDone has handled the completion of the task
\* dispatched before it, and no task waits that was admitted before a
\* dispatched one
C2_SerialOrder ==
    ~startAll =>
        /\ \A j \in Logged("dispatch"), k \in Logged("dispatch") :
              j < k =>
                 /\ log[j][2] < log[k][2]
                 /\ \E m \in Logged("done") : j < m /\ m < k /\ log[m][2] = log[j][2]
        /\ \A i \in WaitingTasks, j \in Logged("dispatch") : log[j][2] < tasks[i].n

\* C3: in parallel mode, when start() returns without any task having completed
\* inside it, no task of the load is still WAITING, so every task that waited
\* when start() was called is RUNNING before the first taskDone is handled
C3_ParallelAllRunning ==
    ( /\ startAll /\ running /\ err = "none"
      /\ lastOp \in {"setup", "start"}
      /\ \A j \in Logged("done") : j < LastStart )
    => WaitingTasks = {}

C3_Witness ==
    /\ startAll /\ running /\ err = "none"
    /\ lastOp \in {"setup", "start"}
    /\ \A j \in Logged("done") : j < LastStart
    /\ Cardinality(RunningTasks) >= 2
    /\ Cardinality(Logged("dispatch")) >= 2

\* C4: between setup and reset no operation changes mode; a shape violation
\* leaves a MAP load in MAP mode
C4_ModeFixed ==
    [][lastOp' \notin {"setup", "reset"} => mode' = mode]_vars

C4_Witness ==
    violated /\ lastOp = "taskDone" /\ mode = MAP_MODE /\ Len(tasks) > 0

\* the descriptors of the submission, in the order addTasks visits them
Members ==
    CASE submitted.shape = "bare" -> <<submitted.one>>
      [] submitted.shape = "array" -> submitted.items
      [] submitted.shape = "object" ->
            [i \in 1..Cardinality(DOMAIN submitted.obj) |->
                submitted.obj[Ascending(DOMAIN submitted.obj)[i]]]

\* the descriptor as the registry sees it under the load's default type
Normal(d) == WithType([type |-> type], applyDefaults(d))

Accepting(d) == { i \in 1..Len(taskDefs) : Test(taskDefs[i], Normal(d)) }

SetupReturned == lastOp = "setup" /\ err = "none"

EmptyUnlessDone == Logged("done") = {} => results.e = <<>>

\* C5 as claimed: a bare descriptor gives SINGLE and null, a keyed object MAP
\* and {}, and every array LIST and []
C5_ShapeFromTopLevel ==
    SetupReturned =>
        /\ submitted.shape = "bare" =>
              mode = SINGLE_MODE /\ results.k \in {"null", "value"}
        /\ submitted.shape = "object" => mode = MAP_MODE /\ results.k = "map"
        /\ submitted.shape = "array" => mode = LIST_MODE /\ results.k = "list"
        /\ EmptyUnlessDone

\* C5 amended: a setup that returns gives SINGLE and null for a bare descriptor
\* that a variant accepts, MAP and {} for a keyed object, and for an array LIST
\* and [] when some member has no id, MAP and {} when every member has one
C5_ShapeFromInput ==
    SetupReturned =>
        /\ submitted.shape = "bare" =>
              mode = SINGLE_MODE /\ results.k \in {"null", "value"}
        /\ submitted.shape = "object" => mode = MAP_MODE /\ results.k = "map"
        /\ submitted.shape = "array" =>
              IF \E i \in 1..Len(submitted.items) : submitted.items[i].id = NoId
              THEN mode = LIST_MODE /\ results.k = "list"
              ELSE mode = MAP_MODE /\ results.k = "map"
        /\ EmptyUnlessDone

C5_Witness ==
    /\ SetupReturned
    /\ submitted.shape = "array" /\ Len(submitted.items) = 2
    /\ mode = MAP_MODE /\ results = [k |-> "map", e |-> <<>>]
    /\ Len(tasks) = 2

\* C6: once a completed task of a MAP load has appended an id-less descriptor,
\* the container never holds an entry under the absent id (stated for the runs
\* in which the owner calls start() no further time)
C6_NoIdlessEntry ==
    (violated /\ starts = 0) => \A j \in 1..Len(results.e) : results.e[j][1] # NoId

\* C7: a shape violation is raised to the caller (by the release build, the
\* debug build reports it), and after it the load dispatches no task and never
\* emits complete (stated for the runs in which the owner calls start() no
\* further time)
C7_ViolationFatal ==
    starts = 0 =>
        /\ \A j \in Logged("violation") :
              \A k \in Logged("dispatch") \cup Logged("complete") : k < j
        /\ (build = "release" /\ log # <<>> /\ log[Len(log)][1] = "violation")
              => err # "none"

\* C8: a descriptor of an array or keyed object that no variant accepts is only
\* logged: setup throws nothing, and total counts exactly the other descriptors
C8_UnmatchedExcluded ==
    (lastOp = "setup" /\ submitted.shape \in {"array", "object"}) =>
        /\ err = "none"
        /\ total = Cardinality({ i \in 1..Len(Members) : Accepting(Members[i]) # {} })

\* C9: the variant selected for an admitted descriptor is the most recently
\* registered one among those that accept it
C9_LastRegisteredWins ==
    (SetupReturned /\ Len(Members) = 1 /\ Len(tasks) = 1) =>
        \E i \in Accepting(Members[1]) :
            /\ \A k \in Accepting(Members[1]) : k <= i
            /\ tasks[1].cls = taskDefs[i]

\* C10: the progress values a load emits never decrease, also when a completed
\* task admits further descriptors
C10_ProgressMonotonic ==
    \A j \in Logged("progress"), k \in Logged("progress") :
        j < k => log[j][2] * log[k][3] <= log[k][2] * log[j][3]

\* the progress events that taskDone triggered
DoneProgress == { j \in Logged("progress") : log[j][2] > 0 }

\* C11: a progress event of taskDone has the value 1.0 exactly when the task
\* list is empty at the time it is triggered (stated for the runs in which the
\* owner calls start() no further time)
C11_FullExactlyWhenEmpty ==
    starts = 0 =>
        \A j \in DoneProgress : (log[j][2] = log[j][3]) <=> (log[j][4] = 0)

\* C12: every progress value a load emits lies in [0,1], also when a listener
\* of taskDone resets the load
C12_ProgressInUnit ==
    \A j \in Logged("progress") :
        log[j][3] > 0 /\ 0 <= log[j][2] /\ log[j][2] <= log[j][3]

\* C13: numLoaded never exceeds total, and between setup and reset neither
\* total nor numLoaded decreases
C13_CountersGrow ==
    /\ [](numLoaded <= total)
    /\ [][lastOp' \notin {"setup", "reset"} =>
             total' >= total /\ numLoaded' >= numLoaded]_vars

\* the tasks taken off the task list before log position j
DoneBefore(j) == { i \in Logged("done") : i < j }

\* C14: when complete is emitted, the tasks completed with a result and those
\* completed with none are together total many, each task counted once
C14_AllCounted ==
    \A j \in Logged("complete") :
        /\ Cardinality({ i \in DoneBefore(j) : log[i][3] # 0 })
             + Cardinality({ i \in DoneBefore(j) : log[i][3] = 0 }) = total
        /\ Cardinality({ log[i][2] : i \in DoneBefore(j) }) = total

C14_Witness ==
    /\ Logged("complete") # {}
    /\ total = 3
    /\ \E i, k \in Logged("done") : log[i][3] # 0 /\ log[k][3] = 0

\* C15: complete is emitted at most once between setup and reset, only with
\* an empty task list, and carries the result container of the load
C15_CompleteOnce ==
    /\ Cardinality(Logged("complete")) <= 1
    /\ \A j \in Logged("complete") : log[j][3] = 0 /\ log[j][2] = results

C15_Witness ==
    /\ Logged("complete") # {}
    /\ total > Len(Members)
    /\ Len(results.e) >= 2

\* the results the completed tasks gave, in the order taskDone handled them
RECURSIVE Produced(_)
Produced(l) ==
    IF l = <<>> THEN <<>>
    ELSE (IF Head(l)[1] = "done" /\ Head(l)[3] # 0 THEN <<Head(l)[3]>> ELSE <<>>)
         \o Produced(Tail(l))

\* C17: the container of a LIST load holds the results in the order in which
\* the tasks completed, whatever the order in which they were admitted
C17_ListInCompletionOrder ==
    (mode = LIST_MODE /\ results.k = "list") => results.e = Produced(log)

C17_Witness ==
    /\ mode = LIST_MODE /\ submitted.shape = "array"
    /\ results = [k |-> "list", e |-> <<2, 1>>]
    /\ Logged("complete") # {}

\* the keys of a map container
Keys(r) == { r.e[j][1] : j \in 1..Len(r.e) }

\* the number of the last task created before the load was set up
Base == nextN - total - 1

\* the id of the task of the i-th descriptor of a keyed object: the
\* descriptor's own id, its key in the object if it has none
TaskKey(i) ==
    LET key == Ascending(DOMAIN submitted.obj)[i]
    IN IF submitted.obj[key].id # NoId THEN submitted.obj[key].id ELSE key

\* a load set up with a keyed object each descriptor of which a variant
\* accepts, with one task for each key and no more
OneTaskPerKey ==
    /\ submitted.shape = "object"
    /\ \A i \in 1..Len(Members) : Accepting(Members[i]) # {}
    /\ results.k = "map"
    /\ total = Cardinality(DOMAIN submitted.obj)

\* C18 as claimed: when the load of a keyed object has completed, the keys of
\* the container are the keys of the object
C18_KeysEqualInput ==
    (OneTaskPerKey /\ Logged("complete") # {}) =>
        Keys(results) = DOMAIN submitted.obj

\* C18 amended: the keys of the container are the ids of the tasks that
\* completed with a result, a task's id being its descriptor's own id, or the
\* key of the descriptor when it has none
C18_KeysFromTasks ==
    OneTaskPerKey =>
        Keys(results) = { TaskKey(log[i][2] - Base) :
                            i \in { j \in Logged("done") : log[j][3] # 0 } }

C18_Witness ==
    /\ OneTaskPerKey /\ Logged("complete") # {}
    /\ DOMAIN submitted.obj = {1, 2}
    /\ submitted.obj[1].id = MaxId
    /\ Len(results.e) = 1 /\ results.e[1][1] = MaxId
    /\ Cardinality(Logged("done")) = 2

\* C19: when the load of a bare descriptor has completed, its container is the
\* value the one task of the submission gave, null if it gave none, whatever
\* the tasks admitted later gave
C19_SingleKeepsOwn ==
    (submitted.shape = "bare" /\ mode = SINGLE_MODE /\ Logged("complete") # {}) =>
        results = IF \E i \in Logged("done") : log[i][2] = Base + 1 /\ log[i][3] # 0
                  THEN [k |-> "value", e |-> <<Base + 1>>]
                  ELSE [k |-> "null", e |-> <<>>]

\* the descriptor of task n asks for caching, itself or by the cacheAll default
WantsCache(n) ==
    LET d == IF n - Base <= Len(Members) THEN Members[n - Base] ELSE CacheMore[1]
    IN d.cache = "yes" \/ (d.cache = "undef" /\ cacheAll)

\* C20: cache.write(id, result) is called once for every completed task that
\* gave a result and whose descriptor asks for caching (itself or by the
\* cacheAll default), with the task's id and result, and for no other task
C20_CacheExactly ==
    /\ \A i \in Logged("taskDone") :
          Cardinality({ j \in Logged("cache") : log[j][3] = log[i][2] })
            = IF log[i][3] # 0 /\ WantsCache(log[i][2]) THEN 1 ELSE 0
    /\ \A j \in Logged("cache") :
          \E i \in Logged("taskDone") :
              log[i][2] = log[j][3] /\ log[i][4].id = log[j][2] /\ log[i][3] = log[j][3]

C20_Witness ==
    /\ cacheAll /\ Logged("complete") # {}
    /\ submitted.items = <<IdDesc, UncachedDesc>>
    /\ total = 3
    /\ \A i \in Logged("taskDone") : log[i][3] # 0
    /\ Cardinality(Logged("cache")) = 2

\* what the load tells about completions: the hook, the events
Notifications == {"hook", "taskDone", "progress", "complete"}

\* C21: the cache write for a task comes before every notification about the
\* task's completion: between taskDone taking the task off the list and the
\* write nothing is notified, and the task's hook and taskDone event follow it
C21_CacheWriteFirst ==
    \A j \in Logged("cache") :
        /\ \E d \in Logged("done") :
              /\ d < j /\ log[d][2] = log[j][3]
              /\ \A k \in (d + 1)..(j - 1) : log[k][1] \notin Notifications
        /\ \A k \in Logged("hook") \cup Logged("taskDone") :
              log[k][2] = log[j][3] => j < k

C21_Witness ==
    /\ Logged("complete") # {}
    /\ \E j \in Logged("cache") :
          /\ \E k \in Logged("hook") : k > j /\ log[k][2] = log[j][3]
          /\ \E k \in Logged("taskDone") : k > j /\ log[k][2] = log[j][3]
          /\ \E k \in Logged("progress") : k > j
          /\ \E k \in Logged("complete") : k > j

\* C16: every load that was started emits complete at some time, whatever was
\* submitted, when every started task calls back
C16_StartedCompletes ==
    (running /\ err = "none") ~> (Logged("complete") # {})

\* ------------------------------------------------------------ the Loader
\* the LoaderItem entered in the active map under url
Active(url) == items[url] # NoItem

\* how often x occurs in the sequence q
Occurs(q, x) == Cardinality({ i \in 1..Len(q) : q[i] = x })

\* the tasks that asked the Loader for a url
Askers == { asked[i][1] : i \in 1..Len(asked) }

\* a LoaderItem still holds the callback of task n and its transport runs
Awaited(n) == \E i \in 1..Len(slots) : slots[i].busy /\ slots[i].req = n

\* C22: the callback of every started LoadTask is invoked exactly once: never
\* twice, and as long as it was not invoked a running transport still holds
\* it, whatever Loader.cancel calls were made in between
C22_OnDoneOnce ==
    \A n \in Askers :
        /\ Occurs(calls, n) <= 1
        /\ Occurs(calls, n) = 0 => Awaited(n)

\* C23: Loader.cancel(url) for a url without an entry in the active map returns
\* false and leaves the pool and the active map as they were
C23_CancelUnknown ==
    [][(lastOp' = "cancel" /\ ~Active(cancelled'[1])) =>
          (cancelled'[2] = FALSE /\ UNCHANGED <<items, itemPool>>)]_vars

\* a cancel of a url nobody loads returned false while another url is being
\* loaded and an idle item is in the pool
C23_Witness ==
    /\ lastOp = "cancel" /\ cancelled[2] = FALSE
    /\ Len(itemPool) > 0
    /\ \E url \in Urls : Active(url)

\* C24: Loader.cancel(url) for a url with an entry in the active map returns
\* true; afterwards the item is in the pool and the url has no entry, so that
\* cancel(url) called again at once returns false and leaves the pool alone
C24_CancelActive ==
    [][(lastOp' = "cancel" /\ Active(cancelled'[1])) =>
          /\ cancelled'[2] = TRUE
          /\ Occurs(itemPool', items[cancelled'[1]]) >= 1
          /\ items'[cancelled'[1]] = NoItem
          /\ cancel(Loader', cancelled'[1]).ret = FALSE
          /\ cancel(Loader', cancelled'[1]).itemPool = itemPool']_vars

\* C25: when the transport of an item ends, the item is in the pool exactly
\* once after Loader._onComplete has run, and the active map has no entry of
\* that item under its url
C25_ReturnedOnce ==
    [][(lastOp' = "taskDone" /\ Len(calls') > Len(calls)) =>
          \A i \in 1..Len(slots) :
              (slots[i].busy /\ slots[i].req = calls'[Len(calls')] /\ ~slots'[i].busy) =>
                  /\ Occurs(itemPool', i) = 1
                  /\ items'[slots[i].url] # i]_vars

\* C26: Loader.cancel(url) changes nothing of the load: its tasks stay in the
\* list with their status, and total, numLoaded and results are as before
C26_CancelKeepsLoad ==
    [][lastOp' = "cancel" => UNCHANGED <<tasks, total, numLoaded, results, running>>]_vars

\* the load of a running task was cancelled: the task is still in the list,
\* running, and no transport holds its callback any more
C26_Witness ==
    /\ lastOp = "cancel" /\ cancelled[2] = TRUE /\ running
    /\ \E i \in Pending :
          /\ tasks[i].status = RUNNING
          /\ tasks[i].n \in Askers
          /\ Occurs(calls, tasks[i].n) = 0
          /\ ~Awaited(tasks[i].n)

\* ------------------------------------------------------------ the sizes
\* the registered sizes that the viewport of the refresh just made leaves
\* qualified: maxSize / devicePixelRatio exceeds min(width, height)
Qualified ==
    { i \in 1..Len(sizes) :
        sizes[i].maxSize > Min(viewport[1], viewport[2]) * pixelRatio(viewport[3]) }

\* C27: after defines in any order and a refresh, if a registered size
\* qualifies the preferred size is a registered one that qualifies and none
\* that qualifies has a smaller maxSize
C27_SmallestQualified ==
    (lastOp = "refresh" /\ Qualified # {}) =>
        /\ \E i \in Qualified : preferredSize = sizes[i]
        /\ \A i \in Qualified : preferredSize.maxSize <= sizes[i].maxSize

\* two sizes of different maxSize are registered, both qualify and the
\* smaller, hd with the fallback sd, is preferred
C27_Witness ==
    /\ lastOp = "refresh" /\ Len(sizes) = 2
    /\ Qualified = {1, 2}
    /\ sizes[1].maxSize < sizes[2].maxSize
    /\ sizesMap["hd"] = sizes[1] /\ sizesMap["sd"] = sizes[2]
    /\ sizes[1].fallback = <<"sd">>
    /\ preferredSize = sizes[1]

\* C28: with devicePixelRatio 1 and the sizes sd (maxSize 100) and hd
\* (maxSize 800), refresh(100, 100) and refresh(50, 50) both make sd preferred
C28_EqualQualifies ==
    ( /\ lastOp = "refresh" /\ Len(sizes) = 2
      /\ sizes[1].id = "sd" /\ sizes[1].maxSize = 100
      /\ sizes[2].id = "hd" /\ sizes[2].maxSize = 800
      /\ viewport \in {<<100, 100, 1>>, <<50, 50, 1>>} )
    => preferredSize = sizes[1]

\* C29: after a refresh with a size registered a registered size is
\* preferred, whatever the viewport
C29_AlwaysOne ==
    (lastOp = "refresh" /\ Len(sizes) >= 1) =>
        \E i \in 1..Len(sizes) : preferredSize = sizes[i]

\* C30: size(supported) returns the preferred size unless the map passed says
\* false of its id, also when the map has no entry for the id
C30_PreferredUnlessUnsupported ==
    ( /\ lastOp = "size" /\ preferredSize # NoSize
      /\ sized.given => sized.map[preferredSize.id] # "false" )
    => (sized.err = "none" /\ sized.ret = preferredSize)

\* the map passed to the last size says false of the preferred size
MarkedUnsupported ==
    /\ lastOp = "size" /\ preferredSize # NoSize
    /\ sized.given /\ sized.map[preferredSize.id] = "false"

\* C31: when the map says false of the preferred size, size returns the size
\* registered under the first id of its fallback that the map does not say
\* false of
C31_FirstFallback ==
    MarkedUnsupported =>
        \A i \in 1..Len(preferredSize.fallback) :
            ( /\ sized.map[preferredSize.fallback[i]] # "false"
              /\ \A j \in 1..(i - 1) : sized.map[preferredSize.fallback[j]] = "false"
              /\ sizesMap[preferredSize.fallback[i]] # UndefinedSize )
            => (sized.err = "none" /\ sized.ret = sizesMap[preferredSize.fallback[i]])

\* the first id of the fallback is marked false, the second has no entry in the
\* map, and the size registered under the second was returned
C31_Witness ==
    /\ MarkedUnsupported
    /\ Len(preferredSize.fallback) = 2
    /\ sized.map[preferredSize.fallback[1]] = "false"
    /\ sized.map[preferredSize.fallback[2]] = "undefined"
    /\ sizesMap[preferredSize.fallback[2]] # UndefinedSize
    /\ sized.ret = sizesMap[preferredSize.fallback[2]]
    /\ sized.ret # preferredSize

\* C32: when the map says false of the preferred size and of every id of its
\* fallback, or the fallback is empty, size throws and returns no size
C32_FailsWhenNoneSupported ==
    ( /\ MarkedUnsupported
      /\ \A i \in 1..Len(preferredSize.fallback) :
            sized.map[preferredSize.fallback[i]] = "false" )
    => (sized.err = "Asset does not support any valid size" /\ sized.ret = NoSize)

\* ------------------------------------------------- the life of a task
\* C33: taskDone for a task that is not in the list, because it called back
\* before or because its load was reset since, changes no counter and no
\* container, emits nothing and throws nothing
C33_StaleIsNoOp ==
    [][lastOp' = "stale" =>
          /\ UNCHANGED <<tasks, total, numLoaded, results, mode, running, startAll,
                         cacheAll, type, log, violated>>
          /\ err' = "none"]_vars

\* a task of a load that was reset called back while the load, set up again,
\* is running other tasks
C33_Witness ==
    /\ lastOp = "stale" /\ setups = 2 /\ running
    /\ Len(tasks) > 0 /\ numLoaded < total

\* C34: reset() destroys every task of the list and leaves the load as the
\* constructor made it: no tasks, total 0, numLoaded 0, results null, mode MAP,
\* startAll true, cacheAll false, type null, not running; so a load set up
\* after a reset starts as a new load does
C34_ResetRestores ==
    [][lastOp' = "reset" =>
          /\ \A i \in 1..Len(tasks) : tasks[i].n \in destroyed'
          /\ tasks' = <<>> /\ total' = 0 /\ numLoaded' = 0
          /\ results' = [k |-> "null", e |-> <<>>]
          /\ mode' = MAP_MODE /\ startAll' = TRUE /\ cacheAll' = FALSE
          /\ type' = "null" /\ running' = FALSE]_vars

\* the number of entries of the log that the step left in place
Kept ==
    IF Len(log') >= Len(log) /\ SubSeq(log', 1, Len(log)) = log THEN Len(log) ELSE 0

\* C35: a task is started only while it is WAITING and at most once, and a
\* task that completed or that a reset destroyed is never started again
C35_StartedOnceWhileWaiting ==
    [][\A k \in (Kept + 1)..Len(log') :
          log'[k][1] = "dispatch" =>
              /\ log'[k][2] \notin destroyed
              /\ \A j \in 1..(k - 1) :
                    log'[j][1] \in {"dispatch", "done"} => log'[j][2] # log'[k][2]
              /\ \/ log'[k][2] >= nextN
                 \/ \E i \in 1..Len(tasks) :
                       tasks[i].n = log'[k][2] /\ tasks[i].status = WAITING]_vars

\* a serial load: one task completed and was destroyed, the next was started
\* after that and is running, a third still waits
C35_Witness ==
    /\ lastOp = "taskDone" /\ ~startAll /\ destroyed # {}
    /\ \E i, j \in Pending : tasks[i].status = RUNNING /\ tasks[j].status = WAITING
    /\ \E d \in Logged("done"), k \in Logged("dispatch") : d < k

\* C36: while one taskDone of a load is executing no other taskDone of the
\* load begins: the callback of a started task takes no second task off the
\* list before it returns
C36_OneTaskDoneAtATime ==
    [][lastOp' = "taskDone" =>
          Cardinality({ k \in (Kept + 1)..Len(log') : log'[k][1] = "done" }) <= 1]_vars

\* ------------------------------------------------------- the pool again
\* C37: no LoaderItem is in the pool more than once, and none is in the pool
\* while its transport runs
C37_PoolHoldsIdleItemsOnce ==
    \A i \in 1..Len(slots) :
        /\ Occurs(itemPool, i) <= 1
        /\ Occurs(itemPool, i) = 1 => ~slots[i].busy

\* C38: while the transport of an item runs, the url it loads has an entry in
\* the active map, so that cancel(url) finds an item
C38_InFlightTracked ==
    \A i \in 1..Len(slots) : slots[i].busy => Active(slots[i].url)

\* ------------------------------------------------------ the DelayedCall
\* C39: when restart() has run on a call that was not destroyed, the call is
\* subscribed to the ticker, holds its callback and its timer is the full
\* delay, also when restart() was called from the callback of a call that
\* does not repeat
C39_RestartedRunsAgain ==
    call.restarted /\ ~(lastOp = "update" /\ call.repeat) =>
        call.has /\ call.callback /\ call.timer = call.delay

\* ---------------------------------------------------------- the VOPlayer
\* C40: once the completion callback of the list played was invoked, or stop()
\* was called, playing is false
C40_NotPlayingOnceFinished ==
    player.completed \/ player.stopped => ~playing(player)

====
